---- MODULE Spec2Model ----
(***************************************************************************)
(* wpaperd daemon: the background image loader (daemon/src/image_loader.rs) *)
(* and the rotation timer of a surface (daemon/src/surface.rs).            *)
(*                                                                         *)
(* The main loop owns ImageLoader.images, a map from path to Image         *)
(* { data, thread_handle, requesters }.  background_load(path, requester)  *)
(* is the only operation of the main loop on it.  Every decode runs on a   *)
(* std::thread spawned by start_new_thread; the thread opens the file,     *)
(* converts the image to RGBA8, pings the event loop and returns.          *)
(*                                                                         *)
(* A Surface holds its WallpaperInfo, its ImagePicker and event_source,    *)
(* the RegistrationToken of its timer in the calloop event loop.           *)
(* update_wallpaper_info reconciles a new WallpaperInfo with the timer,    *)
(* add_timer registers a timer, and the timer's callback rotates the image.*)
(***************************************************************************)
EXTENDS Integers, Sequences, FiniteSets, TLC

\* ---------------------------------------------------------------- bounds
NumRequesters == 2     \* surfaces that call background_load
MaxThreads == 3        \* decode threads alive (spawned, not yet joined) at once
MaxTime == 4           \* the clock stops here (in seconds)
MaxTokens == 3         \* registration tokens the event loop can hand out at once

\* The image files.  Entries of different paths share nothing but the map, so
\* two paths show every interleaving of one path's decode with another's.
Paths == {"a.png", "b.png"}
Requesters == 1..NumRequesters

VARIABLES
    images,     \* ImageLoader.images : path -> Image, a map with a dynamic domain
    threads,    \* the decode threads: slot t holds the thread of JoinHandle t
    gone,       \* path -> what the latest call for the path did to its entry
    pending,    \* path -> requesters whose latest answer for the path was Waiting
    lastCall,   \* what the latest background_load call saw and returned
    now,            \* Instant::now(), in seconds
    wallpaper_info, \* Surface.wallpaper_info
    event_source,   \* Surface.event_source : Option<RegistrationToken>
    image_picker,   \* Surface.image_picker : current image, image_changed_instant
    sources,        \* the timer sources registered in the event loop: token -> deadline
    redrawDue,      \* the token of the timer whose first firing is to draw a changed path
    lastOp          \* what the operation on the surface just performed saw and did

loaderVars == <<images, threads, gone, pending, lastCall>>

surfaceVars ==
    <<now, wallpaper_info, event_source, image_picker, sources, redrawDue, lastOp>>

vars == <<loaderVars, surfaceVars>>

\* ---------------------------------------------------------------- data
\* Option<JoinHandle>: 0 is None, t > 0 is Some(handle of threads[t]).
NoHandle == 0

\* Option<RgbaImage> / the thread's local `image`:
\*   "none"    nothing decoded,
\*   "dynamic" the DynamicImage returned by open(), not yet converted,
\*   "rgba"    the RgbaImage produced by into_rgba8().
Buffers == {"none", "dynamic", "rgba"}

\* struct Image
Image(data, handle, requesters) ==
    [data |-> data, thread_handle |-> handle, requesters |-> requesters]

\* The closure run by std::thread::spawn.  pc is the next statement:
\*   "open"     open(&path_clone)
\*   "convert"  image.into_rgba8()
\*   "ping"     ping_clone.ping()
\*   "return"   Some(image), the closure's value
\*   "finished" the thread has ended: JoinHandle::is_finished() is true
\*   "free"     no thread: never spawned, or joined (join() consumes the handle)
\* result is the value join() yields: "some" = Ok(Some(image)),
\* "none" = Ok(None), "panic" = Err(_), "running" = nothing yet.
Thread(path) ==
    [path |-> path, pc |-> "open", image |-> "none", result |-> "running", pings |-> 0]

Running == {"open", "convert", "ping", "return"}

FreeSlot ==
    [path |-> "", pc |-> "free", image |-> "none", result |-> "running", pings |-> 0]

Handles == 1..MaxThreads

\* enum ImageLoaderStatus, plus "None" before the first call
NoCall ==
    [path |-> "", requester |-> 0, status |-> "None", delivery |-> "none",
     data |-> "none", spawned |-> 0, joined |-> 0, joinResult |-> "running",
     wasPending |-> FALSE, othersPending |-> {},
     signalled |-> FALSE, ready |-> FALSE, fresh |-> "none"]

\* ---------------------------------------------------------------- the map
\* HashMap::remove(&path)
Remove(imgs, p) == [q \in DOMAIN imgs \ {p} |-> imgs[q]]

\* HashMap::insert(path, image): adds the key or replaces its value
Insert(imgs, p, image) ==
    [q \in DOMAIN imgs \cup {p} |-> IF q = p THEN image ELSE imgs[q]]

\* A plausible slip: an entry counts as found only once its data is stored.
LookupLoadedOnly(imgs, p) == p \in DOMAIN imgs /\ imgs[p].data # "none"

\* self.images.get_mut(&path) is Some(_)
Lookup(imgs, p) == p \in DOMAIN imgs

\* handle.is_finished()
IsFinished(thr, h) == thr[h].pc = "finished"

\* requesters.iter().position(|name| name == &requester_name)
RECURSIVE Position(_, _, _)
Position(requesters, r, i) ==
    IF i > Len(requesters) THEN 0
    ELSE IF requesters[i] = r THEN i
    ELSE Position(requesters, r, i + 1)

\* Vec::remove(index)
RemoveAt(requesters, i) ==
    [k \in 1..(Len(requesters) - 1) |->
        IF k < i THEN requesters[k] ELSE requesters[k + 1]]

\* A plausible slip: the first name is removed without looking for the caller's.
RemoveFirstRequester(requesters, r) ==
    IF requesters = <<>> THEN requesters ELSE Tail(requesters)

\* if let Some(index) = position(..) { requesters.remove(index); }
RemoveRequester(requesters, r) ==
    LET index == Position(requesters, r, 1) IN
    IF index # 0 THEN RemoveAt(requesters, index) ELSE requesters

\* The result of one background_load call: the new map and thread table, the
\* returned ImageLoaderStatus, how a Loaded buffer was handed over ("move" out
\* of the removed entry, or "copy" by data.clone()), the buffer returned, the
\* thread spawned and the thread joined by the call (0: none).
Outcome(imgs, thr, status, delivery, data, spawned, joined) ==
    [images |-> imgs, threads |-> thr, status |-> status, delivery |-> delivery,
     data |-> data, spawned |-> spawned, joined |-> joined]

\* A plausible slip: the entry is never removed, every caller gets a clone.
DeliverCopyOnly(imgs, thr, p, r, joined) ==
    IF imgs[p].data # "none"
    THEN Outcome([imgs EXCEPT ![p].requesters = RemoveRequester(@, r)], thr,
                 "Loaded", "copy", imgs[p].data, 0, joined)
    ELSE Outcome(imgs, thr, "Waiting", "none", "none", 0, joined)

\* if let Some(data) = &image.data { .. } else { Waiting }
Deliver(imgs, thr, p, r, joined) ==
    IF imgs[p].data # "none"
    THEN IF /\ Len(imgs[p].requesters) = 1
            /\ Head(imgs[p].requesters) = r
         THEN \* the only requester: send it up and remove it from the map
              Outcome(Remove(imgs, p), thr, "Loaded", "move", imgs[p].data, 0, joined)
         ELSE \* requested by several surfaces: forget this one, clone the data
              Outcome([imgs EXCEPT ![p].requesters = RemoveRequester(@, r)], thr,
                      "Loaded", "copy", imgs[p].data, 0, joined)
    ELSE \* the decoded image is not ready yet
         Outcome(imgs, thr, "Waiting", "none", "none", 0, joined)

\* A plausible slip: the failure is reported but the entry stays in the map.
JoinFailedKeepEntry(imgs, p) == imgs

\* Ok(None) and Err(_): self.images.remove(&path); return Error
JoinFailed(imgs, p) == Remove(imgs, p)

\* std::thread::spawn: the new thread's handle is the first free slot
FreeHandles(thr) == {t \in Handles : thr[t].pc = "free"}

Spawn(thr) == CHOOSE t \in FreeHandles(thr) : \A u \in FreeHandles(thr) : t <= u

\* A plausible slip: the new entry is created without its requester.
StartNewThreadNoRequester(imgs, thr, p, r) ==
    Outcome(Insert(imgs, p, Image("none", Spawn(thr), <<>>)),
            [thr EXCEPT ![Spawn(thr)] = Thread(p)],
            "Waiting", "none", "none", Spawn(thr), 0)

\* start_new_thread, then Waiting
StartNewThread(imgs, thr, p, r) ==
    Outcome(Insert(imgs, p, Image("none", Spawn(thr), <<r>>)),
            [thr EXCEPT ![Spawn(thr)] = Thread(p)],
            "Waiting", "none", "none", Spawn(thr), 0)

\* background_load as a function of the loader's state
Load(imgs, thr, p, r) ==
    IF Lookup(imgs, p)
    THEN LET h == imgs[p].thread_handle IN
         IF h # NoHandle
         THEN IF IsFinished(thr, h)
              THEN LET joinedThr == [thr EXCEPT ![h] = FreeSlot]
                       \* image.thread_handle.take() left None in the entry
                       taken == [imgs EXCEPT ![p].thread_handle = NoHandle]
                   IN
                   IF thr[h].result = "some"
                   THEN Deliver([taken EXCEPT ![p].data = thr[h].image],
                                joinedThr, p, r, h)
                   ELSE Outcome(JoinFailed(taken, p), joinedThr,
                                "Error", "none", "none", 0, h)
              ELSE \* the thread is still running: reassign the handle
                   Outcome(imgs, thr, "Waiting", "none", "none", 0, 0)
         ELSE Deliver(imgs, thr, p, r, 0)
    ELSE StartNewThread(imgs, thr, p, r)

\* ---------------------------------------------------------------- main loop
\* What a call did to the entry of its path: "purged" it after a failed join
\* (Error), "consumed" it by moving its data out (Loaded by move), or left an
\* entry in the map ("live").  "never": no call for the path yet.
Gone(out) ==
    IF out.status = "Error" THEN "purged"
    ELSE IF out.delivery = "move" THEN "consumed"
    ELSE "live"

\* pub fn background_load(&mut self, path, requester_name) -> ImageLoaderStatus
BackgroundLoad(p, r) ==
    /\ Lookup(images, p) \/ FreeHandles(threads) # {}
    /\ LET out == Load(images, threads, p, r)
           had == p \in DOMAIN images
           h == IF had THEN images[p].thread_handle ELSE NoHandle
       IN
       /\ images' = out.images
       /\ threads' = out.threads
       /\ gone' = [gone EXCEPT ![p] = Gone(out)]
       /\ pending' =
            [pending EXCEPT ![p] =
                CASE out.status = "Waiting" -> @ \cup {r}
                  [] out.status = "Loaded" -> @ \ {r}
                  [] out.status = "Error" -> {}]
       /\ lastCall' =
            [path |-> p, requester |-> r, status |-> out.status,
             delivery |-> out.delivery, data |-> out.data,
             spawned |-> out.spawned, joined |-> out.joined,
             joinResult |->
                IF out.joined # 0 THEN threads[out.joined].result ELSE "running",
             wasPending |-> r \in pending[p],
             othersPending |-> pending[p] \ {r},
             signalled |-> h # NoHandle /\ threads[h].pings > 0,
             ready |-> /\ had
                       /\ \/ images[p].data # "none"
                          \/ /\ h # NoHandle
                             /\ threads[h].pc = "finished"
                             /\ threads[h].result = "some",
             fresh |-> gone[p]]
    /\ UNCHANGED surfaceVars

\* ---------------------------------------------------------------- decode thread
\* open(&path_clone) returns Ok(image)
WorkerOpenOk(t) ==
    /\ threads[t].pc = "open"
    /\ threads' = [threads EXCEPT ![t].pc = "convert", ![t].image = "dynamic"]
    /\ UNCHANGED <<images, gone, pending, lastCall>>
    /\ UNCHANGED surfaceVars

\* open(&path_clone) returns Err(err): warn!, the closure's value is None
WorkerOpenErr(t) ==
    /\ threads[t].pc = "open"
    /\ threads' = [threads EXCEPT ![t].pc = "finished", ![t].result = "none"]
    /\ UNCHANGED <<images, gone, pending, lastCall>>
    /\ UNCHANGED surfaceVars

\* the decoder or the conversion panics: join() will yield Err(_)
WorkerPanic(t) ==
    /\ threads[t].pc \in {"open", "convert"}
    /\ threads' = [threads EXCEPT ![t].pc = "finished", ![t].result = "panic",
                                  ![t].image = "none"]
    /\ UNCHANGED <<images, gone, pending, lastCall>>
    /\ UNCHANGED surfaceVars

\* A plausible slip: the conversion result is returned without the ping.
WorkerConvertNoPing(t) ==
    /\ threads[t].pc = "convert"
    /\ threads' = [threads EXCEPT ![t].pc = "return", ![t].image = "rgba"]
    /\ UNCHANGED <<images, gone, pending, lastCall>>
    /\ UNCHANGED surfaceVars

\* let image = image.into_rgba8();
WorkerConvert(t) ==
    /\ threads[t].pc = "convert"
    /\ threads' = [threads EXCEPT ![t].pc = "ping", ![t].image = "rgba"]
    /\ UNCHANGED <<images, gone, pending, lastCall>>
    /\ UNCHANGED surfaceVars

\* A plausible slip: the ping is sent as soon as the file is opened, and the
\* image is returned as it was decoded.
WorkerPingEarly(t) ==
    /\ threads[t].pc = "convert"
    /\ threads' = [threads EXCEPT ![t].pc = "return", ![t].pings = @ + 1]
    /\ UNCHANGED <<images, gone, pending, lastCall>>
    /\ UNCHANGED surfaceVars

\* ping_clone.ping();
WorkerPing(t) ==
    /\ threads[t].pc = "ping"
    /\ threads' = [threads EXCEPT ![t].pc = "return", ![t].pings = @ + 1]
    /\ UNCHANGED <<images, gone, pending, lastCall>>
    /\ UNCHANGED surfaceVars

\* Some(image): the closure returns and the thread ends
WorkerReturn(t) ==
    /\ threads[t].pc = "return"
    /\ threads' = [threads EXCEPT ![t].pc = "finished", ![t].result = "some"]
    /\ UNCHANGED <<images, gone, pending, lastCall>>
    /\ UNCHANGED surfaceVars

\* ================================================================ surface
\* The image files the picker rotates through
ImageFiles == <<"1.png", "2.png">>

\* Option<Duration>::None, Option<RegistrationToken>::None, Option<Timer>::None
NoDuration == 0
NoToken == 0
NoTimer == -1

\* WallpaperInfo.duration values, in seconds
Durations == {2, 3}

\* WallpaperInfo: the fields the surface reads (path through the picker,
\* duration, mode); they are compared by value
Configs ==
    [path : {"dirA", "dirB"}, duration : {NoDuration} \cup Durations,
     mode : {"center", "fit"}]

Tokens == 1..MaxTokens

\* What an operation on the surface has done so far: the surface's fields, the
\* loop's sources, the number of queue_draw calls, the token inserted, the
\* tokens passed to handle.remove, and the path_changed it was told.
Effect(info, es, picker, srcs) ==
    [wallpaper_info |-> info, event_source |-> es, image_picker |-> picker,
     sources |-> srcs, draws |-> 0, inserted |-> NoToken, removed |-> {},
     path_changed |-> FALSE]

\* Duration::saturating_sub
SaturatingSub(a, b) == IF a > b THEN a - b ELSE 0

\* Option<Duration>::None as returned by remaining_duration
NoRemaining == -1

\* fn remaining_duration(duration, image_changed) -> Option<Duration>,
\* with image_changed.elapsed() = t - image_changed
remaining_duration(duration, image_changed, t) ==
    LET diff == t - image_changed IN
    IF SaturatingSub(duration, diff) = 0 THEN NoRemaining ELSE duration - diff

\* ImagePicker::update(&wallpaper_info) -> path_changed: the active path
\* changes with the configured path; the new path's first image becomes the
\* current one, and image_changed_instant is reset or kept (reset)
PickerUpdate(picker, old, new, t, reset) ==
    IF new.path # old.path
    THEN [path_changed |-> TRUE,
          picker |-> [current |-> 1,
                      image_changed_instant |->
                        IF reset THEN t ELSE picker.image_changed_instant]]
    ELSE [path_changed |-> FALSE, picker |-> picker]

\* ImagePicker::next_image(): the next image is current from now on
NextImage(picker, t) ==
    [current |-> (picker.current % Len(ImageFiles)) + 1, image_changed_instant |-> t]

\* LoopHandle::remove(token): a token of no registered source removes nothing
LoopRemove(srcs, token) == [k \in DOMAIN srcs \ {token} |-> srcs[k]]

\* LoopHandle::insert_source(timer, callback) -> token: a token that names no
\* registered source and that the surface does not hold
FreeTokens(srcs, held) == {k \in Tokens : k \notin DOMAIN srcs /\ k # held}

NewToken(srcs, held) ==
    CHOOSE k \in FreeTokens(srcs, held) : \A j \in FreeTokens(srcs, held) : k <= j

InsertSource(srcs, token, deadline) ==
    [k \in DOMAIN srcs \cup {token} |-> IF k = token THEN deadline ELSE srcs[k]]

\* A plausible slip: the redraw is not requested.
queue_draw_nothing(sf) == sf

\* Surface::queue_draw
queue_draw(sf) == [sf EXCEPT !.draws = @ + 1]

\* A plausible slip: the token is dropped without deregistering its source.
TakeAndForget(sf) == [sf EXCEPT !.event_source = NoToken]

\* if let Some(registration_token) = self.event_source.take() {
\*     handle.remove(registration_token); }
TakeAndRemove(sf) ==
    IF sf.event_source # NoToken
    THEN [sf EXCEPT !.event_source = NoToken,
                    !.sources = LoopRemove(@, sf.event_source),
                    !.removed = @ \cup {sf.event_source}]
    ELSE sf

\* A plausible slip: the timer is inserted although a registration exists.
add_timer_overwriting(sf, timer, t) ==
    IF sf.wallpaper_info.duration # NoDuration
    THEN LET deadline == IF timer = NoTimer
                         THEN t + sf.wallpaper_info.duration ELSE timer
             token == NewToken(sf.sources, sf.event_source)
         IN [sf EXCEPT !.sources = InsertSource(@, token, deadline),
                       !.event_source = token,
                       !.inserted = token]
    ELSE sf

\* pub fn add_timer(&mut self, timer: Option<Timer>, handle, qh); a Timer is
\* its deadline: Timer::immediate() is t, Timer::from_duration(d) is t + d
add_timer(sf, timer, t) ==
    IF sf.wallpaper_info.duration # NoDuration
    THEN LET deadline == IF timer = NoTimer
                         THEN t + sf.wallpaper_info.duration ELSE timer
         IN IF sf.event_source # NoToken
            THEN sf
            ELSE LET token == NewToken(sf.sources, sf.event_source) IN
                 [sf EXCEPT !.sources = InsertSource(@, token, deadline),
                            !.event_source = token,
                            !.inserted = token]
    ELSE sf

\* A plausible slip: the timer is armed for the whole new duration.
ReconcileTimerFull(path_changed, new_duration, image_changed, t) ==
    IF path_changed THEN t ELSE t + new_duration

\* The timer update_wallpaper_info arms when the duration was added or changed
ReconcileTimer(path_changed, new_duration, image_changed, t) ==
    LET remaining_time == remaining_duration(new_duration, image_changed, t) IN
    IF ~path_changed /\ remaining_time # NoRemaining
    THEN t + remaining_time      \* Timer::from_duration(remaining_time)
    ELSE t                       \* Timer::immediate()

\* pub fn update_wallpaper_info(&mut self, handle, qh, wallpaper_info)
update_wallpaper_info(sf, info, t, reset) ==
    IF sf.wallpaper_info # info
    THEN LET old == sf.wallpaper_info
             up == PickerUpdate(sf.image_picker, old, info, t, reset)
             \* std::mem::swap, then self.image_picker.update(..)
             swapped == [sf EXCEPT !.wallpaper_info = info,
                                   !.image_picker = up.picker,
                                   !.path_changed = up.path_changed]
         IN
         IF info.duration # old.duration
         THEN IF info.duration = NoDuration
              THEN \* there was a duration before but now it has been removed
                   IF up.path_changed
                   THEN queue_draw(TakeAndRemove(swapped))
                   ELSE TakeAndRemove(swapped)
              ELSE \* the duration has been added or it has changed
                   add_timer(TakeAndRemove(swapped),
                             ReconcileTimer(up.path_changed, info.duration,
                                            up.picker.image_changed_instant, t),
                             t)
         ELSE IF up.path_changed THEN queue_draw(swapped) ELSE swapped
    ELSE sf

\* What the timer's callback does and returns: the TimeoutAction ("ToDuration"
\* with its duration, or "Drop"), the picker, the queue_draw calls and the
\* next_image calls it made.
Fired(action, rearm, picker, draws, advanced, remaining) ==
    [action |-> action, rearm |-> rearm, image_picker |-> picker,
     draws |-> draws, advanced |-> advanced, remaining |-> remaining]

\* A plausible slip: the image is changed at every firing of the timer.
TimerCallbackAlwaysNext(info, picker, t) ==
    IF info.duration # NoDuration
    THEN Fired("ToDuration", info.duration, NextImage(picker, t), 1, 1,
               remaining_duration(info.duration, picker.image_changed_instant, t))
    ELSE Fired("Drop", 0, picker, 0, 0, NoRemaining)

\* the closure given to insert_source in add_timer
TimerCallback(info, picker, t) ==
    IF info.duration # NoDuration
    THEN LET remaining_time ==
                remaining_duration(info.duration, picker.image_changed_instant, t)
         IN IF remaining_time # NoRemaining
            THEN Fired("ToDuration", remaining_time, picker, 0, 0, remaining_time)
            ELSE \* change the drawn image
                 Fired("ToDuration", info.duration, NextImage(picker, t), 1, 1,
                       remaining_time)
    ELSE Fired("Drop", 0, picker, 0, 0, NoRemaining)

\* ---------------------------------------------------------------- surface steps
NoOp ==
    [op |-> "none", info |-> [path |-> "", duration |-> NoDuration, mode |-> ""],
     old_info |-> [path |-> "", duration |-> NoDuration, mode |-> ""],
     timer |-> NoTimer, token |-> NoToken,
     held |-> NoToken, registered |-> {}, path_changed |-> FALSE, draws |-> 0,
     advanced |-> 0, inserted |-> NoToken, removed |-> {}, deadline |-> NoTimer,
     action |-> "none", rearm |-> 0, remaining |-> NoRemaining,
     due |-> FALSE, current |-> 0, changed |-> 0]

\* The surface as the operations see it
TheSurface == Effect(wallpaper_info, event_source, image_picker, sources)

\* a token is left for insert_source to hand out
TokenLeft == Cardinality(DOMAIN sources) + 1 < MaxTokens

\* The surface's fields and the loop's sources after an operation
Apply(sf) ==
    /\ wallpaper_info' = sf.wallpaper_info
    /\ event_source' = sf.event_source
    /\ image_picker' = sf.image_picker
    /\ sources' = sf.sources

\* The main loop calls update_wallpaper_info with a configuration
UpdateWallpaperInfo(info, reset) ==
    /\ TokenLeft
    /\ reset => info.path # wallpaper_info.path
    /\ LET sf == update_wallpaper_info(TheSurface, info, now, reset) IN
       /\ Apply(sf)
       /\ redrawDue' =
            IF sf.path_changed /\ sf.draws = 0 THEN sf.inserted
            ELSE IF redrawDue \in DOMAIN sf.sources THEN redrawDue
            ELSE NoToken
       /\ lastOp' =
            [NoOp EXCEPT !.op = "reconcile", !.info = info,
                         !.old_info = wallpaper_info,
                         !.held = event_source, !.registered = DOMAIN sources,
                         !.path_changed = sf.path_changed, !.draws = sf.draws,
                         !.inserted = sf.inserted, !.removed = sf.removed,
                         !.deadline = IF sf.inserted # NoToken
                                      THEN sf.sources[sf.inserted] ELSE NoTimer,
                         !.current = image_picker.current]
    /\ UNCHANGED now
    /\ UNCHANGED loaderVars

\* The main loop calls add_timer (None when a surface is first configured)
AddTimer(timer) ==
    /\ TokenLeft
    /\ LET sf == add_timer(TheSurface, timer, now) IN
       /\ Apply(sf)
       /\ lastOp' =
            [NoOp EXCEPT !.op = "add_timer", !.info = wallpaper_info,
                         !.old_info = wallpaper_info, !.timer = timer,
                         !.held = event_source, !.registered = DOMAIN sources,
                         !.inserted = sf.inserted,
                         !.deadline = IF sf.inserted # NoToken
                                      THEN sf.sources[sf.inserted] ELSE NoTimer,
                         !.current = image_picker.current]
    /\ UNCHANGED <<now, redrawDue>>
    /\ UNCHANGED loaderVars

\* The event loop dispatches a timer source whose deadline has passed; the
\* source is rearmed from now (ToDuration) or removed from the loop (Drop)
TimerFire(token) ==
    /\ token \in DOMAIN sources
    /\ sources[token] <= now
    /\ LET f == TimerCallback(wallpaper_info, image_picker, now) IN
       /\ image_picker' = f.image_picker
       /\ sources' = IF f.action = "ToDuration"
                     THEN [sources EXCEPT ![token] = now + f.rearm]
                     ELSE LoopRemove(sources, token)
       /\ redrawDue' = IF redrawDue = token THEN NoToken ELSE redrawDue
       /\ lastOp' =
            [NoOp EXCEPT !.op = "fire", !.info = wallpaper_info,
                         !.old_info = wallpaper_info, !.token = token,
                         !.held = event_source, !.registered = DOMAIN sources,
                         !.draws = f.draws, !.advanced = f.advanced,
                         !.action = f.action, !.rearm = f.rearm,
                         !.remaining = f.remaining,
                         !.due = (redrawDue = token),
                         !.current = image_picker.current,
                         !.changed = image_picker.image_changed_instant]
    /\ UNCHANGED <<now, wallpaper_info, event_source>>
    /\ UNCHANGED loaderVars

\* A next-image command from the user: the picker moves on now
NextImageCommand ==
    /\ image_picker' = NextImage(image_picker, now)
    /\ lastOp' = [NoOp EXCEPT !.op = "command", !.info = wallpaper_info,
                              !.old_info = wallpaper_info,
                              !.held = event_source, !.registered = DOMAIN sources,
                              !.current = image_picker.current]
    /\ UNCHANGED <<now, wallpaper_info, event_source, sources, redrawDue>>
    /\ UNCHANGED loaderVars

\* A second passes: the latest operation is no longer the step just taken
Tick ==
    /\ now < MaxTime
    /\ now' = now + 1
    /\ lastOp' = NoOp
    /\ UNCHANGED <<wallpaper_info, event_source, image_picker, sources, redrawDue>>
    /\ UNCHANGED loaderVars

\* The timers add_timer can be given at time t
TimerArgs(t) == {NoTimer, t} \cup {t + d : d \in Durations}

\* ImageLoader::new
LoaderInit ==
    /\ images = <<>>
    /\ threads = [t \in Handles |-> FreeSlot]
    /\ gone = [p \in Paths |-> "never"]
    /\ pending = [p \in Paths |-> {}]
    /\ lastCall = NoCall

\* Surface::new(.., wallpaper_info, ..): no timer yet, the picker shows its
\* first image
SurfaceNew(info) ==
    /\ now = 0
    /\ wallpaper_info = info
    /\ event_source = NoToken
    /\ image_picker = [current |-> 1, image_changed_instant |-> 0]
    /\ sources = <<>>
    /\ redrawDue = NoToken
    /\ lastOp = NoOp

\* The loader beside a surface that is left alone
Init ==
    /\ LoaderInit
    /\ SurfaceNew([path |-> "dirA", duration |-> NoDuration, mode |-> "center"])

Next ==
    \/ \E p \in Paths, r \in Requesters : BackgroundLoad(p, r)
    \/ \E t \in Handles : WorkerOpenOk(t)
    \/ \E t \in Handles : WorkerOpenErr(t)
    \/ \E t \in Handles : WorkerPanic(t)
    \/ \E t \in Handles : WorkerConvert(t)
    \/ \E t \in Handles : WorkerPing(t)
    \/ \E t \in Handles : WorkerReturn(t)

Spec == Init /\ [][Next]_vars

\* A step of decode thread t
WorkerStep(t) ==
    \/ WorkerOpenOk(t)
    \/ WorkerOpenErr(t)
    \/ WorkerPanic(t)
    \/ WorkerConvert(t)
    \/ WorkerPing(t)
    \/ WorkerReturn(t)

\* A requester that was answered Waiting for a path asks again
Poll(p, r) == r \in pending[p] /\ BackgroundLoad(p, r)

\* The operating system runs every spawned thread, and every surface that was
\* answered Waiting keeps asking (at each frame and at each ping)
FairSpec ==
    /\ Spec
    /\ \A t \in Handles : WF_vars(WorkerStep(t))
    /\ \A p \in Paths, r \in Requesters : WF_vars(Poll(p, r))

SurfaceNext ==
    \/ \E info \in Configs, reset \in BOOLEAN : UpdateWallpaperInfo(info, reset)
    \/ \E timer \in TimerArgs(now) : AddTimer(timer)
    \/ \E token \in Tokens : TimerFire(token)
    \/ NextImageCommand
    \/ Tick

\* A surface created with any configuration, beside a loader that is left alone
SurfaceInit ==
    /\ LoaderInit
    /\ \E info \in Configs : SurfaceNew(info)

SurfaceSpec == SurfaceInit /\ [][SurfaceNext]_vars

\* ================================================================ properties
\* The threads of a path that have started and not yet finished.
InFlight(p) == {t \in Handles : threads[t].path = p /\ threads[t].pc \in Running}

\* The latest call was made by a requester that had been answered Waiting for
\* the path and had received neither Loaded nor Error for it since.
CallByPending == lastCall.status # "None" /\ lastCall.wasPending

\* C1: in every reachable state, no entry present in the cache has an empty
\* requester list.
C1_NoEmptyRequesterList ==
    \A p \in DOMAIN images : images[p].requesters # <<>>

\* C1 witness: a second surface has been handed a copy (the branch that removes
\* a requester from the list ran) and the entry is still in the cache.
C1_Witness ==
    /\ lastCall.delivery = "copy"
    /\ lastCall.path \in DOMAIN images
    /\ Head(images[lastCall.path].requesters) # lastCall.requester

\* C2: for every path, at most one decode thread spawned for it has started and
\* not yet finished.
C2_OneDecodeInFlightPerPath ==
    \A p \in Paths : Cardinality(InFlight(p)) <= 1

\* C2 witness: a path is requested again after its decode failed and its entry
\* was purged; the thread spawned by that call is running, while the other
\* path has a decode in flight as well.
C2_Witness ==
    /\ lastCall.fresh = "purged"
    /\ lastCall.spawned # 0
    /\ threads[lastCall.spawned].pc \in Running
    /\ \E q \in Paths \ {lastCall.path} : InFlight(q) # {}

\* C3 (Scenario E): two surfaces request the same path before either received
\* the data; exactly one decode thread is spawned for the path: a call by a
\* surface that is still waiting for the path never spawns another thread.
C3_ScenarioE_OneDecode ==
    CallByPending => lastCall.spawned = 0

\* C4: while other requesters of the path are still waiting for it, a call that
\* returns Loaded returns a copy and leaves the entry, with its decoded buffer,
\* in the cache; only the last waiting requester's call removes it.
C4_EntrySurvivesUntilLastRequester ==
    (CallByPending /\ lastCall.status = "Loaded" /\ lastCall.othersPending # {})
        => /\ lastCall.delivery = "copy"
           /\ lastCall.path \in DOMAIN images
           /\ images[lastCall.path].data = "rgba"

\* C5: for a path with exactly one requester waiting for it, once its decode
\* has finished successfully the requester's call returns Loaded and the entry
\* is no longer in the cache after the call.
C5_SoleRequesterConsumes ==
    (CallByPending /\ lastCall.othersPending = {} /\ lastCall.ready)
        => /\ lastCall.status = "Loaded"
           /\ lastCall.data = "rgba"
           /\ lastCall.path \notin DOMAIN images

\* C5 witness: the sole waiting requester called after the thread finished
\* with Some(image); the call joined the thread and moved the buffer out.
C5_Witness ==
    /\ CallByPending
    /\ lastCall.othersPending = {}
    /\ lastCall.ready
    /\ lastCall.joined # 0
    /\ lastCall.delivery = "move"

\* C6: a call for a path made once the path's decode thread has fired the
\* wakeup signal returns Loaded, not Waiting.
C6_WokenCallFindsBuffer ==
    (lastCall.status # "None" /\ lastCall.signalled) => lastCall.status = "Loaded"

\* C7: every decode thread has fired no signal while it is still decoding and
\* exactly one signal once it has finished.
C7_OneSignalPerFinishedThread ==
    \A t \in Handles :
        /\ threads[t].pc \in {"open", "convert"} => threads[t].pings = 0
        /\ threads[t].pc = "finished" => threads[t].pings = 1

\* C7 as amended: a decode thread has fired no signal while it is still
\* decoding, exactly one signal once it has finished with a decoded image, and
\* none when it has finished with a decode error or a panic.
C7_OneSignalPerLoadedImage ==
    \A t \in Handles :
        /\ threads[t].pc \in {"open", "convert"} => threads[t].pings = 0
        /\ (threads[t].pc = "finished" /\ threads[t].result = "some")
                => threads[t].pings = 1
        /\ (threads[t].pc = "finished" /\ threads[t].result # "some")
                => threads[t].pings = 0

\* C7 witness: one thread has finished with a decoded image and another with a
\* decode error.
C7_Witness ==
    \E t, u \in Handles :
        /\ threads[t].pc = "finished" /\ threads[t].result = "some"
        /\ threads[u].pc = "finished" /\ threads[u].result = "none"

\* C8: a call that joins a thread which ended with a decode error or a panic
\* returns Error, leaves no entry for the path and starts no decode.
C8_FailedJoinPurgesAndReports ==
    lastCall.joinResult \in {"none", "panic"}
        => /\ lastCall.status = "Error"
           /\ lastCall.path \notin DOMAIN images
           /\ lastCall.spawned = 0
           /\ \A t \in Handles : threads[t].path # lastCall.path

\* C8 witness: a call joined a panicked thread while a second requester was
\* waiting for the same path.
C8_Witness ==
    /\ lastCall.joinResult = "panic"
    /\ lastCall.status = "Error"
    /\ lastCall.othersPending # {}

\* C9: the first call for a path after its failed decode was purged has the
\* effect and result of a call for a path never seen: it returns Waiting and
\* leaves an entry without data whose sole requester is the caller and whose
\* handle is that of the one thread spawned for the path.
C9_RetryIsFirstRequest ==
    (lastCall.status # "None" /\ lastCall.fresh \in {"purged", "never"})
        => /\ lastCall.status = "Waiting"
           /\ lastCall.spawned # 0
           /\ lastCall.joined = 0
           /\ lastCall.path \in DOMAIN images
           /\ images[lastCall.path] =
                Image("none", lastCall.spawned, <<lastCall.requester>>)
           /\ {t \in Handles : threads[t].path = lastCall.path} = {lastCall.spawned}

\* C9 witness: a requester that was not waiting for the path requested it
\* after its entry was purged.
C9_Witness ==
    /\ lastCall.fresh = "purged"
    /\ ~lastCall.wasPending
    /\ lastCall.status = "Waiting"

\* C10: a thread has converted its image before it signals; a thread seen as
\* finished with Some(image) holds the converted buffer, and so does every
\* entry of the cache and every buffer a joining call returns.
C10_ConvertedBeforeSignal ==
    /\ \A t \in Handles :
        /\ threads[t].pings > 0 => threads[t].image = "rgba"
        /\ (threads[t].pc = "finished" /\ threads[t].result = "some")
                => threads[t].image = "rgba"
    /\ \A p \in DOMAIN images : images[p].data \in {"none", "rgba"}
    /\ lastCall.joinResult = "some" => lastCall.data = "rgba"

\* C10 witness: a call found the thread finished, joined it and returned the
\* buffer.
C10_Witness ==
    /\ lastCall.joined # 0
    /\ lastCall.joinResult = "some"
    /\ lastCall.status = "Loaded"

\* ---------------------------------------------------------------- surface
\* The operation just performed was update_wallpaper_info
Reconciled == lastOp.op = "reconcile"

\* The time left of a duration since the image last changed at instant c
TimeLeft(duration, c) == duration - (now - c)

\* C11: at most one timer source of the surface is registered in the event
\* loop, it is the one whose token the surface holds, and a new source is
\* registered only after every source registered before was removed.
C11_AtMostOneTimerSource ==
    /\ Cardinality(DOMAIN sources) <= 1
    /\ DOMAIN sources \subseteq {event_source}
    /\ lastOp.inserted # NoToken => lastOp.registered \subseteq lastOp.removed

\* C11 witness: a reconcile call replaced a registered timer by a new one.
C11_Witness ==
    /\ Reconciled
    /\ lastOp.registered # {}
    /\ lastOp.removed = lastOp.registered
    /\ lastOp.inserted # NoToken
    /\ DOMAIN sources = {lastOp.inserted}

\* C12: a reconcile call that is told the path changed requests a redraw
\* itself or arms a timer, and the first firing of that timer requests it.
C12_PathChangeIsRedrawn ==
    /\ (Reconciled /\ lastOp.path_changed)
            => (lastOp.draws > 0 \/ lastOp.inserted # NoToken)
    /\ (lastOp.op = "fire" /\ lastOp.due) => lastOp.draws > 0

\* C13: a reconcile call that adds or changes the duration removes the timer
\* the surface held and leaves exactly one timer registered, the one it
\* inserted: due after the time left of the new duration when the path did
\* not change and time is left, due at once otherwise.
C13_ReconcileArmsRemainingOrImmediate ==
    (Reconciled /\ lastOp.info.duration # lastOp.old_info.duration
                /\ lastOp.info.duration # NoDuration)
        => /\ lastOp.registered \subseteq lastOp.removed
           /\ lastOp.inserted # NoToken
           /\ event_source = lastOp.inserted
           /\ DOMAIN sources = {lastOp.inserted}
           /\ LET left == TimeLeft(lastOp.info.duration,
                                   image_picker.image_changed_instant)
              IN sources[lastOp.inserted] =
                    IF ~lastOp.path_changed /\ left > 0 THEN now + left ELSE now

\* C13 witness (Scenario A): the duration goes from 2 s to 3 s, the path is
\* the same, 1 s has passed since the image changed: the timer is due in 2 s.
C13_Witness ==
    /\ Reconciled
    /\ lastOp.old_info.duration = 2
    /\ lastOp.info.duration = 3
    /\ ~lastOp.path_changed
    /\ lastOp.registered # {}
    /\ now - image_picker.image_changed_instant = 1
    /\ lastOp.inserted # NoToken
    /\ sources[lastOp.inserted] = now + 2

\* C14: when the timer fires with a duration configured and time is left, it
\* is rearmed for the time left, the image stays and no redraw is requested;
\* when no time is left, the picker advances once, one redraw is requested
\* and the timer is rearmed for the whole duration.
C14_TimerRearmsOrRotates ==
    (lastOp.op = "fire" /\ lastOp.info.duration # NoDuration)
        => LET left == TimeLeft(lastOp.info.duration, lastOp.changed) IN
           /\ lastOp.action = "ToDuration"
           /\ lastOp.token \in DOMAIN sources
           /\ IF left > 0
              THEN /\ sources[lastOp.token] = now + left
                   /\ lastOp.advanced = 0
                   /\ lastOp.draws = 0
                   /\ image_picker =
                        [current |-> lastOp.current,
                         image_changed_instant |-> lastOp.changed]
              ELSE /\ sources[lastOp.token] = now + lastOp.info.duration
                   /\ lastOp.advanced = 1
                   /\ lastOp.draws = 1
                   /\ image_picker.current # lastOp.current
                   /\ image_picker.image_changed_instant = now

\* C14 witness (Scenario D): the timer fired exactly when the duration had
\* passed since the image changed; the image advanced.
C14_Witness ==
    /\ lastOp.op = "fire"
    /\ lastOp.info.duration # NoDuration
    /\ TimeLeft(lastOp.info.duration, lastOp.changed) = 0
    /\ lastOp.advanced = 1

\* C15: a reconcile call that removes the duration removes the timer the
\* surface held, leaves the surface without a registration and the loop
\* without a timer, arms none, and requests a redraw iff the path changed.
C15_DurationRemovedCancelsTimer ==
    (Reconciled /\ lastOp.old_info.duration # NoDuration
                /\ lastOp.info.duration = NoDuration)
        => /\ event_source = NoToken
           /\ DOMAIN sources = {}
           /\ lastOp.registered \subseteq lastOp.removed
           /\ lastOp.inserted = NoToken
           /\ lastOp.draws = IF lastOp.path_changed THEN 1 ELSE 0

\* C15 witness (Scenario C): the duration is removed while a timer is
\* registered and the path is the same: the timer is gone, no redraw.
C15_Witness ==
    /\ Reconciled
    /\ lastOp.old_info.duration # NoDuration
    /\ lastOp.info.duration = NoDuration
    /\ lastOp.registered # {}
    /\ ~lastOp.path_changed
    /\ lastOp.draws = 0
    /\ DOMAIN sources = {}

\* C16: a reconcile call that does not change the duration leaves the token
\* and the registered timers as they were; with an equal configuration it
\* changes nothing and requests no redraw, with a different one it requests a
\* redraw iff the path changed.
C16_SameDurationKeepsTimer ==
    [][(lastOp'.op = "reconcile" /\ lastOp'.info.duration = wallpaper_info.duration)
        => /\ UNCHANGED <<event_source, sources>>
           /\ lastOp'.info = wallpaper_info
                => (UNCHANGED <<wallpaper_info, image_picker>> /\ lastOp'.draws = 0)
           /\ lastOp'.info # wallpaper_info
                => /\ wallpaper_info' = lastOp'.info
                   /\ lastOp'.draws = IF lastOp'.path_changed THEN 1 ELSE 0]_vars

\* C16 witness: with a timer registered, a configuration of the same duration
\* and another path was put in place: one redraw, the timer as before.
C16_Witness ==
    /\ Reconciled
    /\ lastOp.info.duration = lastOp.old_info.duration
    /\ lastOp.path_changed
    /\ lastOp.draws = 1
    /\ lastOp.held # NoToken
    /\ event_source = lastOp.held

\* C17: add_timer called while the surface holds a registration changes
\* neither the token nor the timers registered in the loop, whatever timer
\* it is given.
C17_AddTimerKeepsRegistration ==
    [][(lastOp'.op = "add_timer" /\ event_source # NoToken)
        => (UNCHANGED <<event_source, sources, wallpaper_info, image_picker>>
            /\ lastOp'.inserted = NoToken)]_vars

\* C17 witness: add_timer was given an immediate timer while a timer due
\* later was registered.
C17_Witness ==
    /\ lastOp.op = "add_timer"
    /\ lastOp.held # NoToken
    /\ lastOp.timer = now
    /\ event_source = lastOp.held
    /\ sources[event_source] > now

\* C20: a surface that holds a token has a duration configured and its token
\* names a registered timer; the callback never returns Drop.
C20_TokenImpliesDuration ==
    /\ event_source # NoToken
        => (wallpaper_info.duration # NoDuration /\ event_source \in DOMAIN sources)
    /\ lastOp.action # "Drop"

\* C20 witness: the timer fired and the surface still holds its token.
C20_Witness ==
    /\ lastOp.op = "fire"
    /\ event_source # NoToken
    /\ lastOp.action = "ToDuration"

\* ---------------------------------------------------------------- loader, again
\* C18: when every decode thread runs on and every requester answered Waiting
\* keeps asking, every entry of the cache is eventually removed.
C18_EveryEntryIsRemoved ==
    \A p \in Paths : (p \in DOMAIN images) ~> (p \notin DOMAIN images)

\* C18 witness: both paths were requested and decoded, and the cache is empty
\* again after the last requester took its buffer.
C18_Witness ==
    /\ images = <<>>
    /\ \A p \in Paths : gone[p] = "consumed" /\ pending[p] = {}
    /\ lastCall.delivery = "move"
    /\ lastCall.othersPending = {}

\* C19: the requester list of every entry holds exactly one name, the name
\* of the requester whose call created the entry: it is set when the entry
\* is created and never changes while the entry is in the cache.
C19_OnlyTheCreatorIsListed ==
    /\ [](\A p \in DOMAIN images : Len(images[p].requesters) = 1)
    /\ [][\A p \in DOMAIN images' :
            IF p \in DOMAIN images
            THEN images'[p].requesters = images[p].requesters
            ELSE /\ lastCall'.path = p
                 /\ images'[p].requesters = <<lastCall'.requester>>]_vars

\* C19 witness: a second surface asked for a path whose decode is pending; it
\* was answered Waiting and the list still holds the first surface only.
C19_Witness ==
    /\ lastCall.status = "Waiting"
    /\ lastCall.spawned = 0
    /\ ~lastCall.wasPending
    /\ lastCall.path \in DOMAIN images
    /\ images[lastCall.path].thread_handle # NoHandle
    /\ Len(images[lastCall.path].requesters) = 1
    /\ Head(images[lastCall.path].requesters) # lastCall.requester

====
